---- MODULE Spec2Model ----
(***************************************************************************)
(* The "ekspose" controller: a Deployment informer feeds a rate-limiting   *)
(* work queue; one worker dequeues items and creates a Service and an      *)
(* Ingress for each Deployment.                                            *)
(*                                                                         *)
(* Strings that are split on "/" are modelled as the sequence of their     *)
(* "/"-separated segments: "default/web" is <<"default", "web">>, "web"    *)
(* is <<"web">>, the empty string is <<"">>.                               *)
(***************************************************************************)
EXTENDS Integers, Sequences, FiniteSets, TLC

\* ---------------------------------------------------------------- bounds
\* Number of cache changes (add / update / delete) the informer makes.
MaxEvents == 3
\* Number of cluster create calls that fail with a transient error.
MaxFaults == 1

\* ------------------------------------------------------------ data model
\* The Deployment objects the informer may deliver; id is the pointer
\* identity (two objects may describe the same namespace/name).
Deployments ==
    { [id |-> 1, ns |-> "default", name |-> <<"web">>,      labels |-> "app=web"],
      [id |-> 2, ns |-> "default", name |-> <<"web">>,      labels |-> "app=web-v2"],
      [id |-> 3, ns |-> "default", name |-> <<"db">>,       labels |-> "app=db"],
      [id |-> 4, ns |-> "default", name |-> <<"a", "b">>,   labels |-> "app=ab"] }

\* The nil *appsv1.Deployment.
NilDep == [id |-> 0, ns |-> "", name |-> <<"">>, labels |-> ""]

\* What the informer hands to the handlers: a *Deployment, or on a missed
\* delete a cache.DeletedFinalStateUnknown wrapping the last known object.
Items == [kind : {"dep", "tomb"}, dep : Deployments]

NoItem == [kind |-> "none", dep |-> NilDep]

\* The *corev1.Service returned by Create.
NilSvc == [nil |-> TRUE, ns |-> "", name |-> <<"">>]

EmptySvc == [nil |-> FALSE, ns |-> "", name |-> <<"">>]

VARIABLES
    cache,        \* informer's indexer: the Deployments the lister can return
    used,         \* Deployment objects the informer has already delivered
    events,       \* number of informer cache changes so far
    synced,       \* depCacheSynced(): the informer's HasSynced
    notifs,       \* notifications handed to the listener, not yet delivered
    queue,        \* workqueue: items waiting, in order
    dirty,        \* workqueue: items that need processing
    processing,   \* workqueue: items handed out by Get and not yet Done
    shuttingDown, \* workqueue: ShutDown was called
    waiting,      \* delaying queue: items scheduled by AddRateLimited
    stopped,      \* the channel ch passed to run is closed
    runPc,        \* position of run
    waitResult,   \* what WaitForCacheSync returned
    wpc,          \* position of the worker goroutine
    cur,          \* processItem: item
    loc,          \* processItem/syncDeployment locals: ns, name, dep, s, err
    services,     \* cluster: Services
    ingresses,    \* cluster: Ingresses
    faults,       \* transient create failures so far
    crashed,      \* the process died of a panic, and where
    attempts,     \* per item: syncDeployment calls
    forgets,      \* per item: queue.Forget calls
    diag,         \* per item: "syncing deployment" diagnostics printed
    calls,        \* per item: dequeues, lister lookup and the object it returned,
                  \* create calls issued and their errors
    outcome,      \* per item: how its last processItem ended
    owed          \* items notified since their last syncDeployment start

vars == << cache, used, events, synced, notifs, queue, dirty, processing,
           shuttingDown, waiting, stopped, runPc, waitResult, wpc, cur, loc,
           services, ingresses, faults, crashed, attempts, forgets, diag,
           calls, outcome, owed >>

informerVars == << cache, used, events, synced >>
queueVars    == << queue, dirty, processing, shuttingDown, waiting >>
runVars      == << runPc, waitResult >>
clusterVars  == << services, ingresses, faults >>
histVars     == << attempts, forgets, diag, calls, outcome >>

NoLoc == [ns |-> "", name |-> <<"">>, dep |-> NilDep, s |-> NilSvc, err |-> "nil"]

Range(s) == { s[i] : i \in 1..Len(s) }

\* ------------------------------------------------------------- key codec
\* cache.MetaNamespaceKeyFunc: "<ns>/<name>" (or "<name>" without namespace)
\* for an object with metadata; a DeletedFinalStateUnknown has none, so the
\* key is "" and an error is returned.
MetaNamespaceKeyFunc(item) ==
    IF item.kind = "dep"
    THEN [key |-> IF item.dep.ns # "" THEN <<item.dep.ns>> \o item.dep.name
                  ELSE item.dep.name,
          err |-> FALSE]
    ELSE [key |-> <<"">>, err |-> TRUE]

\* cache.SplitMetaNamespaceKey: strings.Split(key, "/"); one part is a name
\* without namespace, two parts are namespace and name, more is an error.
SplitMetaNamespaceKey(key) ==
    CASE Len(key) = 1 -> [ns |-> "",     name |-> <<key[1]>>, err |-> FALSE]
      [] Len(key) = 2 -> [ns |-> key[1], name |-> <<key[2]>>, err |-> FALSE]
      [] OTHER        -> [ns |-> "",     name |-> <<"">>,     err |-> TRUE]

\* The key under which the informer's indexer stores a Deployment.
IndexKey(d) == IF d.ns # "" THEN <<d.ns>> \o d.name ELSE d.name

\* c.depLister.Deployments(ns).Get(name): indexer lookup of ns + "/" + name;
\* NilDep (with a NotFound error) when the cache has no such object.
ListerGet(ns, name) ==
    LET hits == { d \in cache : IndexKey(d) = <<ns>> \o name }
    IN  IF hits = {} THEN NilDep ELSE CHOOSE d \in hits : TRUE

depNoLabels(dep) == ""

depLabels(dep) == dep.labels

\* ------------------------------------------------------------------ Init
Init ==
    /\ cache = {}
    /\ used = {}
    /\ events = 0
    /\ synced = FALSE
    /\ notifs = << >>
    /\ queue = << >>
    /\ dirty = {}
    /\ processing = {}
    /\ shuttingDown = FALSE
    /\ waiting = {}
    /\ stopped = FALSE
    /\ runPc = "WaitForCacheSync"
    /\ waitResult = "pending"
    /\ wpc = "notStarted"
    /\ cur = NoItem
    /\ loc = NoLoc
    /\ services = {}
    /\ ingresses = {}
    /\ faults = 0
    /\ crashed = "no"
    /\ attempts = [i \in Items |-> 0]
    /\ forgets = [i \in Items |-> 0]
    /\ diag = [i \in Items |-> 0]
    /\ calls = [i \in Items |-> [gets |-> 0, lookup |-> "none", dep |-> 0, svc |-> 0, ing |-> 0,
                             svcErr |-> "none", ingErr |-> "none"]]
    /\ outcome = [i \in Items |-> "none"]
    /\ owed = {}

Alive == crashed = "no"

\* --------------------------------------------------------------- informer
\* The shared informer (external): it changes the indexer first and then
\* hands a notification to the listener that calls the registered handlers.
\* Only AddFunc and DeleteFunc are registered, so an update notifies nobody.
InformerAdd(d) ==
    /\ Alive
    /\ events < MaxEvents
    /\ d \notin used
    /\ \A e \in cache : IndexKey(e) # IndexKey(d)
    /\ cache' = cache \cup {d}
    /\ used' = used \cup {d}
    /\ events' = events + 1
    /\ notifs' = Append(notifs, [type |-> "add", item |-> [kind |-> "dep", dep |-> d]])
    /\ UNCHANGED << synced, queueVars, stopped, runVars, wpc, cur, loc,
                    clusterVars, crashed, histVars, owed >>

InformerUpdate(old, new) ==
    /\ Alive
    /\ events < MaxEvents
    /\ old \in cache
    /\ new \notin used
    /\ IndexKey(new) = IndexKey(old)
    /\ cache' = (cache \ {old}) \cup {new}
    /\ used' = used \cup {new}
    /\ events' = events + 1
    /\ UNCHANGED << synced, notifs, queueVars, stopped, runVars, wpc, cur, loc,
                    clusterVars, crashed, histVars, owed >>

\* A delete the watch saw carries the stored object; one it missed (found
\* by a relist) carries a DeletedFinalStateUnknown.
InformerDelete(d, kind) ==
    /\ Alive
    /\ events < MaxEvents
    /\ d \in cache
    /\ cache' = cache \ {d}
    /\ events' = events + 1
    /\ notifs' = Append(notifs, [type |-> "del", item |-> [kind |-> kind, dep |-> d]])
    /\ UNCHANGED << used, synced, queueVars, stopped, runVars, wpc, cur, loc,
                    clusterVars, crashed, histVars, owed >>

\* The initial list has been delivered: HasSynced turns true and stays true.
InformerSynced ==
    /\ Alive
    /\ ~synced
    /\ synced' = TRUE
    /\ UNCHANGED << cache, used, events, notifs, queueVars, stopped, runVars,
                    wpc, cur, loc, clusterVars, crashed, histVars, owed >>

\* The owner of ch closes it.
CloseStopCh ==
    /\ Alive
    /\ ~stopped
    /\ stopped' = TRUE
    /\ UNCHANGED << informerVars, notifs, queueVars, runVars, wpc, cur, loc,
                    clusterVars, crashed, histVars, owed >>

\* ------------------------------------------------------------- work queue
\* workqueue Add: dropped when shutting down or already dirty; an item that
\* is being processed is only marked dirty, Done appends it later.
QueueAdd(item) ==
    /\ IF shuttingDown \/ item \in dirty
       THEN UNCHANGED << queue, dirty >>
       ELSE /\ dirty' = dirty \cup {item}
            /\ queue' = IF item \in processing THEN queue ELSE Append(queue, item)
    /\ UNCHANGED << processing, shuttingDown, waiting >>

\* ---------------------------------------------------------- event handlers
handleAdd ==
    /\ Alive
    /\ notifs # << >>
    /\ Head(notifs).type = "add"
    /\ QueueAdd(Head(notifs).item)
    /\ notifs' = Tail(notifs)
    /\ owed' = owed \cup {Head(notifs).item}
    /\ UNCHANGED << informerVars, stopped, runVars, wpc, cur, loc, clusterVars,
                    crashed, histVars >>

handleDel ==
    /\ Alive
    /\ notifs # << >>
    /\ Head(notifs).type = "del"
    /\ QueueAdd(Head(notifs).item)
    /\ notifs' = Tail(notifs)
    /\ owed' = owed \cup {Head(notifs).item}
    /\ UNCHANGED << informerVars, stopped, runVars, wpc, cur, loc, clusterVars,
                    crashed, histVars >>

\* workqueue Get, once it stops blocking: the head leaves the queue, is no
\* longer dirty and is marked as being processed.
QueueGet ==
    /\ queue' = Tail(queue)
    /\ processing' = processing \cup {Head(queue)}
    /\ dirty' = dirty \ {Head(queue)}
    /\ UNCHANGED << shuttingDown, waiting >>

\* -------------------------------------------------------------------- run
\* cache.WaitForCacheSync polls HasSynced until it is true (returns true) or
\* ch is closed (returns false, only a message is printed). Either way run
\* goes on to start the worker goroutine and then blocks on ch.
RunCacheSynced ==
    /\ Alive
    /\ runPc = "WaitForCacheSync"
    /\ synced
    /\ waitResult' = "true"
    /\ runPc' = "blocked"
    /\ wpc' = "until"
    /\ UNCHANGED << informerVars, notifs, queueVars, stopped, cur, loc,
                    clusterVars, crashed, histVars, owed >>

RunCacheSyncAborted ==
    /\ Alive
    /\ runPc = "WaitForCacheSync"
    /\ stopped
    /\ waitResult' = "false"
    /\ runPc' = "blocked"
    /\ wpc' = "until"
    /\ UNCHANGED << informerVars, notifs, queueVars, stopped, cur, loc,
                    clusterVars, crashed, histVars, owed >>

\* <-ch
RunReturn ==
    /\ Alive
    /\ runPc = "blocked"
    /\ stopped
    /\ runPc' = "returned"
    /\ UNCHANGED << informerVars, notifs, queueVars, stopped, waitResult, wpc,
                    cur, loc, clusterVars, crashed, histVars, owed >>

\* ----------------------------------------------------------------- worker
\* wait.Until(c.worker, 1*time.Second, ch) looks at ch before every call of
\* c.worker and returns once it is closed.
UntilNeverStopped == FALSE

UntilStopped == stopped

WaitUntil ==
    /\ Alive
    /\ wpc = "until"
    /\ wpc' = IF UntilStopped THEN "exited" ELSE "Get"
    /\ UNCHANGED << informerVars, notifs, queueVars, stopped, runVars, cur, loc,
                    clusterVars, crashed, histVars, owed >>

\* c.queue.Get() blocks while the queue is empty and not shut down; on an
\* empty, shut down queue it reports shutdown and processItem returns false.
Get ==
    /\ Alive
    /\ wpc = "Get"
    /\ queue # << >> \/ shuttingDown
    /\ IF queue = << >>
       THEN /\ wpc' = "until"
            /\ UNCHANGED << queueVars, cur, calls >>
       ELSE /\ QueueGet
            /\ cur' = Head(queue)
            /\ calls' = [calls EXCEPT ![Head(queue)].gets = @ + 1]
            /\ wpc' = "key"
    /\ UNCHANGED << informerVars, notifs, stopped, runVars, loc, clusterVars,
                    crashed, attempts, forgets, diag, outcome, owed >>

\* defer c.queue.Forget(item): the only queue call processItem makes after
\* Get. It clears the rate limiter's history of the item; the item is
\* neither marked Done nor added again.
ReleaseSkipped(item) ==
    /\ forgets' = forgets
    /\ UNCHANGED queueVars

ReleaseAddRateLimited(item) ==
    /\ forgets' = forgets
    /\ waiting' = waiting \cup {item}
    /\ UNCHANGED << queue, dirty, processing, shuttingDown >>

Release(item) ==
    /\ forgets' = [forgets EXCEPT ![item] = @ + 1]
    /\ UNCHANGED queueVars

\* The key of the item is computed (an error of MetaNamespaceKeyFunc is only
\* printed) and split; a split error ends processItem with false.
Key ==
    /\ Alive
    /\ wpc = "key"
    /\ LET k  == MetaNamespaceKeyFunc(cur)
           sp == SplitMetaNamespaceKey(k.key)
       IN  IF sp.err
           THEN /\ Release(cur)
                /\ outcome' = [outcome EXCEPT ![cur] = "splitErr"]
                /\ cur' = NoItem
                /\ loc' = NoLoc
                /\ wpc' = "until"
           ELSE /\ loc' = [NoLoc EXCEPT !.ns = sp.ns, !.name = sp.name]
                /\ wpc' = "sync"
                /\ UNCHANGED << queueVars, forgets, outcome, cur >>
    /\ UNCHANGED << informerVars, notifs, stopped, runVars, clusterVars,
                    crashed, attempts, diag, calls, owed >>

\* A nil pointer dereference panics; the deferred Forget runs while the
\* stack unwinds, wait.Until's HandleCrash re-panics and the process dies.
Panic(where) ==
    /\ crashed' = where
    /\ Release(cur)
    /\ outcome' = [outcome EXCEPT ![cur] = "panic"]
    /\ wpc' = "dead"

\* syncDeployment up to the Service create call: the lister lookup, whose
\* error is only printed, then dep.Name and depLabels(*dep) are read.
Sync ==
    /\ Alive
    /\ wpc = "sync"
    /\ attempts' = [attempts EXCEPT ![cur] = @ + 1]
    /\ owed' = owed \ {cur}
    /\ LET dep == ListerGet(loc.ns, loc.name)
       IN  IF dep = NilDep
           THEN /\ Panic("dep")
                /\ calls' = [calls EXCEPT ![cur].lookup = "miss"]
                /\ UNCHANGED loc
           ELSE /\ loc' = [loc EXCEPT !.dep = dep]
                /\ calls' = [calls EXCEPT ![cur].lookup = "hit", ![cur].dep = dep.id]
                /\ wpc' = "svc"
                /\ UNCHANGED << queueVars, forgets, outcome, crashed >>
    /\ UNCHANGED << informerVars, notifs, stopped, runVars, clusterVars, cur,
                    diag >>

\* The Service syncDeployment builds for dep.
Service(ns, dep) ==
    [ns |-> ns, name |-> dep.name, selector |-> depLabels(dep),
     portName |-> "http", port |-> 80]

CreateServiceUpsert(svc) ==
    { [err |-> "nil",
       s   |-> [nil |-> FALSE, ns |-> svc.ns, name |-> svc.name],
       add |-> {svc}] }

\* clientset.CoreV1().Services(ns).Create: what the call can answer. On an
\* error the typed client returns an empty Service and the fake clientset a
\* nil one; kubernetes.Interface admits both.
CreateServiceResults(svc) ==
    LET failed(e) == { [err |-> e, s |-> r, add |-> {}] : r \in {NilSvc, EmptySvc} }
    IN  IF \E e \in services : e.ns = svc.ns /\ e.name = svc.name
        THEN failed("AlreadyExists")
        ELSE { [err |-> "nil",
                s   |-> [nil |-> FALSE, ns |-> svc.ns, name |-> svc.name],
                add |-> {svc}] }
             \cup (IF faults < MaxFaults THEN failed("Transient") ELSE {})

\* The Service create call returns; its error is only printed.
CreateService ==
    /\ Alive
    /\ wpc = "svc"
    /\ \E res \in CreateServiceResults(Service(loc.ns, loc.dep)) :
          /\ services' = services \cup res.add
          /\ faults' = IF res.err = "Transient" THEN faults + 1 ELSE faults
          /\ loc' = [loc EXCEPT !.s = res.s, !.err = res.err]
          /\ calls' = [calls EXCEPT ![cur].svc = @ + 1, ![cur].svcErr = res.err]
    /\ wpc' = "ing"
    /\ UNCHANGED << informerVars, notifs, queueVars, stopped, runVars, cur,
                    ingresses, crashed, attempts, forgets, diag, outcome, owed >>

IngressBarePath(svc) ==
    [ns |-> svc.ns, name |-> svc.name, rewriteTarget |-> <<"", "">>,
     path |-> svc.name, pathType |-> "Prefix",
     backend |-> svc.name, port |-> 80]

\* The Ingress createIngress builds for svc.
Ingress(svc) ==
    [ns |-> svc.ns, name |-> svc.name, rewriteTarget |-> <<"", "">>,
     path |-> <<"">> \o svc.name, pathType |-> "Prefix",
     backend |-> svc.name, port |-> 80]

CreateIngressAnyNamespace(ing) ==
    IF \E e \in ingresses : e.ns = ing.ns /\ e.name = ing.name
    THEN { [err |-> "AlreadyExists", add |-> {}] }
    ELSE { [err |-> "nil", add |-> {ing}] }

\* client.NetworkingV1().Ingresses(svc.Namespace).Create: a create in the
\* empty namespace is refused.
CreateIngressResults(ing) ==
    IF ing.ns = ""
    THEN { [err |-> "Invalid", add |-> {}] }
    ELSE IF \E e \in ingresses : e.ns = ing.ns /\ e.name = ing.name
    THEN { [err |-> "AlreadyExists", add |-> {}] }
    ELSE { [err |-> "nil", add |-> {ing}] }
         \cup (IF faults < MaxFaults THEN { [err |-> "Transient", add |-> {}] } ELSE {})

\* return createIngress(ctx, c.clientset, s): syncDeployment's error is the
\* Ingress create's error, whatever the Service create answered.
syncDeploymentErr(svcErr, ingErr) == ingErr

\* fmt.Printf("syncing deployment %s\n", err.Error())
LogSyncErr(item) == diag' = [diag EXCEPT ![item] = @ + 1]

\* createIngress is called with s unconditionally: it reads svc.Name (a
\* panic on a nil s), issues the Ingress create, and processItem ends with
\* syncDeployment's result: true keeps the worker's loop going, false ends
\* c.worker, which wait.Until calls again.
CreateIngress ==
    /\ Alive
    /\ wpc = "ing"
    /\ IF loc.s.nil
       THEN /\ Panic("svc")
            /\ UNCHANGED << cur, loc, clusterVars, calls, diag >>
       ELSE \E res \in CreateIngressResults(Ingress(loc.s)) :
              LET err == syncDeploymentErr(loc.err, res.err)
              IN  /\ ingresses' = ingresses \cup res.add
                  /\ faults' = IF res.err = "Transient" THEN faults + 1 ELSE faults
                  /\ calls' = [calls EXCEPT ![cur].ing = @ + 1, ![cur].ingErr = res.err]
                  /\ Release(cur)
                  /\ IF err = "nil"
                     THEN /\ outcome' = [outcome EXCEPT ![cur] = "ok"]
                          /\ wpc' = "Get"
                          /\ UNCHANGED diag
                     ELSE /\ LogSyncErr(cur)
                          /\ outcome' = [outcome EXCEPT ![cur] = "syncErr"]
                          /\ wpc' = "until"
                  /\ cur' = NoItem
                  /\ loc' = NoLoc
                  /\ UNCHANGED << services, crashed >>
    /\ UNCHANGED << informerVars, notifs, stopped, runVars, attempts, owed >>

\* ------------------------------------------------------------------- Next
Next ==
    \/ \E d \in Deployments : InformerAdd(d)
    \/ \E old, new \in Deployments : InformerUpdate(old, new)
    \/ \E d \in Deployments, kind \in {"dep", "tomb"} : InformerDelete(d, kind)
    \/ InformerSynced
    \/ CloseStopCh
    \/ handleAdd
    \/ handleDel
    \/ RunCacheSynced
    \/ RunCacheSyncAborted
    \/ RunReturn
    \/ WaitUntil
    \/ Get
    \/ Key
    \/ Sync
    \/ CreateService
    \/ CreateIngress

Spec == Init /\ [][Next]_vars

\* The goroutines of the program are scheduled, the informer delivers what it
\* has buffered and finishes its initial list, and cluster calls return.
Fairness ==
    /\ WF_vars(InformerSynced)
    /\ WF_vars(handleAdd)
    /\ WF_vars(handleDel)
    /\ WF_vars(RunCacheSynced)
    /\ WF_vars(RunCacheSyncAborted)
    /\ WF_vars(RunReturn)
    /\ WF_vars(WaitUntil)
    /\ WF_vars(Get)
    /\ WF_vars(Key)
    /\ WF_vars(Sync)
    /\ WF_vars(CreateService)
    /\ WF_vars(CreateIngress)

FairSpec == Spec /\ Fairness

TypeOK ==
    /\ cache \subseteq Deployments
    /\ Range(queue) \subseteq Items
    /\ dirty \subseteq Items
    /\ processing \subseteq Items
    /\ wpc \in {"notStarted", "until", "Get", "key", "sync", "svc", "ing", "exited", "dead"}

\* ----------------------------------------------------------------- claims
ServicesOf(ns, name) == { e \in services : e.ns = ns /\ e.name = name }

IngressesOf(ns, name) == { e \in ingresses : e.ns = ns /\ e.name = name }

InFlight == wpc \in {"key", "sync", "svc", "ing"}

\* C1: a syncDeployment whose lister lookup misses completes without a
\* panic and issues neither a Service nor an Ingress create call.
C1_CacheMissIsNoOp ==
    \A i \in Items :
        calls[i].lookup = "miss" =>
            /\ outcome[i] # "panic"
            /\ crashed = "no"
            /\ calls[i].svc = 0
            /\ calls[i].ing = 0

\* C2: a syncDeployment that found the workload in the cache and whose
\* Service create was answered AlreadyExists returns nil, with exactly one
\* Service and one Ingress of that name in the cluster.
C2_Idempotent ==
    \A i \in Items :
        (calls[i].lookup = "hit" /\ calls[i].svcErr = "AlreadyExists" /\ cur # i) =>
            /\ outcome[i] = "ok"
            /\ Cardinality(ServicesOf(i.dep.ns, i.dep.name)) = 1
            /\ Cardinality(IngressesOf(i.dep.ns, i.dep.name)) = 1

\* An item whose key processItem can split into namespace and name.
Decodable(i) == ~SplitMetaNamespaceKey(MetaNamespaceKeyFunc(i).key).err

\* C3: without cancellation (and as long as the process lives), every
\* handleAdd/handleDel for an item is eventually followed by a syncDeployment
\* for that item that starts after it.
C3_NoLostWork ==
    \A i \in { j \in Items : Decodable(j) } :
        (i \in owed) ~> (i \notin owed \/ stopped \/ ~Alive)

\* C4: an item for which a cluster create call failed with a transient error
\* is reconciled at least one more time (unless the controller is cancelled
\* or the process has died).
C4_RetryTransient ==
    \A i \in Items :
        (calls[i].svcErr = "Transient" \/ calls[i].ingErr = "Transient")
            ~> (attempts[i] >= 2 \/ stopped \/ ~Alive)

C6_Coalescing ==
    \A i \in Items :
        /\ Cardinality({ k \in 1..Len(queue) : queue[k] = i }) <= 1
        /\ attempts[i] <= 1
        /\ calls[i].svc <= 1
        /\ calls[i].ing <= 1
        /\ (calls[i].svcErr \in {"none", "nil"} /\ calls[i].ingErr \in {"none", "nil"}) =>
              outcome[i] \in {"none", "ok", "splitErr"}

\* C7: once ch is closed the worker loop eventually ends.
C7_ShutdownEndsWorker == stopped ~> (wpc \in {"exited", "dead"})

\* C8: once ch is closed no further item is dequeued.
C8_NoDequeueAfterStop == [][stopped => processing' \subseteq processing]_vars

\* C9: processItem runs only after WaitForCacheSync has seen HasSynced true;
\* when it returned false (ch closed first) the worker never gets an item.
C9_CacheSyncBarrier ==
    /\ (wpc \in {"Get", "key", "sync", "svc", "ing", "dead"} \/ processing # {}) =>
          (synced /\ waitResult = "true")
    /\ waitResult = "false" =>
          /\ wpc \in {"until", "exited"}
          /\ processing = {}
          /\ \A i \in Items : attempts[i] = 0 /\ calls[i].lookup = "none"

\* WaitForCacheSync gave up, and the pending items stay unprocessed.
C9_Witness ==
    /\ waitResult = "false"
    /\ wpc = "exited"
    /\ queue # << >>
    /\ ~synced

\* C10: createIngress is called only with the Service of a Service step that
\* succeeded: non-nil, with the workload's name and namespace.
C10_IngressNeedsService ==
    wpc = "ing" =>
        /\ loc.err = "nil"
        /\ ~loc.s.nil
        /\ loc.s.name = loc.dep.name
        /\ loc.s.ns = loc.dep.ns

\* processItem has ended for the item (by a return or by a panic).
Finished(i) == outcome[i] # "none"

\* The Deployment object the lister returned to the item's syncDeployment.
LookedUp(i) == CHOOSE d \in Deployments \cup {NilDep} : d.id = calls[i].dep

\* C11: syncDeployment returns nil only if both creates completed (created
\* or already existing), and an error of another kind from either create
\* makes it return an error that processItem sees.
C11_ErrorsReported ==
    \A i \in Items :
        (Finished(i) /\ attempts[i] > 0) =>
            /\ outcome[i] = "ok" =>
                  /\ calls[i].svcErr \in {"nil", "AlreadyExists"}
                  /\ calls[i].ingErr \in {"nil", "AlreadyExists"}
            /\ (calls[i].svcErr \in {"Transient", "Invalid"}
                  \/ calls[i].ingErr \in {"Transient", "Invalid"}) =>
                  outcome[i] = "syncErr"

\* C12 as stated: between reconciliation attempts an Ingress of a name
\* exists if and only if a Service of that name has been created.
C12_IngressIffService ==
    ~InFlight =>
        \A d \in Deployments :
            IngressesOf(d.ns, d.name) # {} <=> ServicesOf(d.ns, d.name) # {}

\* C12 as amended: an Ingress of a name exists only if a Service of that
\* name has been created.
C12_IngressOnlyWithService ==
    \A e \in ingresses : ServicesOf(e.ns, e.name) # {}

\* Between attempts: one workload has its Service and Ingress, another its
\* Service only.
C12_Witness ==
    /\ ~InFlight
    /\ \E e \in ingresses : ServicesOf(e.ns, e.name) # {}
    /\ \E s \in services : IngressesOf(s.ns, s.name) = {}

\* C13 as stated: the selector of a Service an item's reconciliation created
\* equals the labels of the object the item's notification carried.
C13_SelectorAtNotification ==
    \A i \in Items :
        calls[i].svcErr = "nil" =>
            \A s \in ServicesOf(i.dep.ns, i.dep.name) : s.selector = i.dep.labels

\* C13 as amended: the selector equals the labels of the object the lister
\* lookup of that reconciliation returned.
C13_SelectorAtLookup ==
    \A i \in Items :
        calls[i].svcErr = "nil" =>
            /\ ServicesOf(i.dep.ns, i.dep.name) # {}
            /\ \A s \in ServicesOf(i.dep.ns, i.dep.name) :
                  s.selector = LookedUp(i).labels

\* A Service was created from an object other than the one notified.
C13_Witness ==
    \E i \in Items :
        /\ calls[i].svcErr = "nil"
        /\ calls[i].dep # i.dep.id
        /\ LookedUp(i).labels # i.dep.labels

\* C14: an item whose key cannot be computed or split is never handed to
\* syncDeployment: no lister lookup, no create call.
C14_FailFastOnBadKey ==
    \A i \in Items :
        (MetaNamespaceKeyFunc(i).err \/ ~Decodable(i)) =>
            /\ attempts[i] = 0
            /\ calls[i].lookup = "none"
            /\ calls[i].svc = 0
            /\ calls[i].ing = 0

\* C15: a reconciliation that found the workload with labels L and no
\* exposure object of its name first creates the Service (selector L, one
\* port "http" 80) and only afterwards the Ingress (one Prefix path
\* "/" + name, backend the Service's name on port 80, rewrite-target "/").
C15_ServiceThenIngress ==
    /\ (wpc = "ing" /\ loc.err = "nil") =>
          /\ [ns |-> loc.ns, name |-> loc.name, selector |-> loc.dep.labels,
               portName |-> "http", port |-> 80] \in services
          /\ IngressesOf(loc.ns, loc.name) = {}
    /\ \A i \in Items :
          (calls[i].svcErr = "nil" /\ calls[i].ingErr = "nil") =>
              /\ ServicesOf(i.dep.ns, i.dep.name) =
                    { [ns |-> i.dep.ns, name |-> i.dep.name,
                       selector |-> LookedUp(i).labels,
                       portName |-> "http", port |-> 80] }
              /\ IngressesOf(i.dep.ns, i.dep.name) =
                    { [ns |-> i.dep.ns, name |-> i.dep.name,
                       rewriteTarget |-> <<"", "">>,
                       path |-> <<"">> \o i.dep.name, pathType |-> "Prefix",
                       backend |-> i.dep.name, port |-> 80] }

\* A reconciliation has created both objects.
C15_Witness ==
    \E i \in Items :
        /\ outcome[i] = "ok"
        /\ calls[i].svcErr = "nil"
        /\ calls[i].ingErr = "nil"
        /\ ServicesOf(i.dep.ns, i.dep.name) # {}
        /\ IngressesOf(i.dep.ns, i.dep.name) # {}

\* C16: create-only frame. A step of the controller leaves the cache as it
\* is (only an informer event changes it); Services and Ingresses are never
\* removed and never replaced by another object of the same name; a step
\* adds at most one object, and a syncDeployment issues at most one Service
\* create and at most one Ingress create.
C16_CreateOnlyFrame ==
    [][ /\ cache' # cache => events' # events
        /\ services \subseteq services'
        /\ ingresses \subseteq ingresses'
        /\ \A e, f \in services' : (e.ns = f.ns /\ e.name = f.name) => e = f
        /\ \A e, f \in ingresses' : (e.ns = f.ns /\ e.name = f.name) => e = f
        /\ Cardinality((services' \ services) \cup (ingresses' \ ingresses)) <= 1
        /\ \A i \in Items : /\ calls'[i].svc <= attempts'[i]
                             /\ calls'[i].ing <= calls'[i].svc ]_vars

\* A second reconciliation ran over objects that already existed and left
\* them in place.
C16_Witness ==
    \E i \in Items :
        /\ Finished(i)
        /\ calls[i].svcErr = "AlreadyExists"
        /\ ServicesOf(i.dep.ns, i.dep.name) # {}
        /\ IngressesOf(i.dep.ns, i.dep.name) # {}
        /\ LookedUp(i).labels \notin { s.selector : s \in services }

C18_FailureDoesNotStop ==
    \A j \in Items :
        (/\ \E i \in Items \ {j} : outcome[i] \in {"splitErr", "syncErr"}
         /\ j \in Range(queue))
            ~> (attempts[j] >= 1 \/ outcome[j] # "none" \/ stopped)

\* C19: after a reconciliation that created the Service and failed to create
\* the Ingress, a later reconciliation of the same workload, whose Service
\* create answers AlreadyExists, leaves the Ingress created.
C19_ConvergesAfterPartialFailure ==
    \A i, k \in Items :
        (/\ i # k
         /\ k.dep.ns = i.dep.ns /\ k.dep.name = i.dep.name
         /\ calls[k].svcErr = "nil" /\ calls[k].ingErr = "Transient"
         /\ calls[i].svcErr = "AlreadyExists"
         /\ Finished(i))
            => IngressesOf(i.dep.ns, i.dep.name) # {}

====
